---- MODULE Spec2Model ----
(***************************************************************************)
(* Model of cmd/nfs-subdir-external-provisioner/provisioner.go: the        *)
(* Provision and Delete handlers of the NFS subdir provisioner, the path   *)
(* templater, and the filesystem they act on.                              *)
(*                                                                         *)
(* Go strings are sequences of one-character strings, so that              *)
(* filepath.Join/Clean/Dir/Base, strings.Replace and the placeholder       *)
(* regexp are computed character by character, as the code computes them.  *)
(* A filesystem node is the sequence of the path segments that lead to it  *)
(* from the root directory (the root is << >>).                            *)
(***************************************************************************)
EXTENDS Integers, Sequences, FiniteSets, TLC

(***************************************************************************)
(* Strings                                                                 *)
(***************************************************************************)

Nil == "nil"

Last(s) == s[Len(s)]

\* s[i..] and s[..i] as Go slices s[i-1:] and s[:i]
From(s, i) == SubSeq(s, i, Len(s))
Upto(s, i) == SubSeq(s, 1, i)

\* strings.HasPrefix
HasPrefix(s, p) == Len(p) <= Len(s) /\ SubSeq(s, 1, Len(p)) = p

Min(S) == CHOOSE i \in S : \A j \in S : i <= j
Max(S) == CHOOSE i \in S : \A j \in S : j <= i

\* strings.Index, 1-based; 0 when sub does not occur in s
Index(s, sub) ==
    LET hits == { i \in 1 .. Len(s) - Len(sub) + 1 : SubSeq(s, i, i + Len(sub) - 1) = sub }
    IN  IF hits = {} THEN 0 ELSE Min(hits)

\* strings.LastIndexByte(s, '/'), 1-based; 0 when s holds no separator
LastSlash(s) ==
    LET hits == { i \in 1 .. Len(s) : s[i] = "/" }
    IN  IF hits = {} THEN 0 ELSE Max(hits)

\* strings.Replace(s, old, new, 1): the first occurrence of old only
Replace1(s, old, new) ==
    LET i == Index(s, old)
    IN  IF i = 0 THEN s
        ELSE Upto(s, i - 1) \o new \o From(s, i + Len(old))

\* strings.ReplaceAll(s, old, new) for a non-empty old: every
\* non-overlapping occurrence, left to right
RECURSIVE ReplaceAll(_, _, _)
ReplaceAll(s, old, new) ==
    LET i == Index(s, old)
    IN  IF i = 0 THEN s
        ELSE Upto(s, i - 1) \o new \o ReplaceAll(From(s, i + Len(old)), old, new)

\* strings.Split(s, "/")
RECURSIVE Segments(_)
Segments(s) ==
    LET i == Index(s, <<"/">>)
    IN  IF i = 0 THEN <<s>>
        ELSE <<Upto(s, i - 1)>> \o Segments(From(s, i + 1))

\* strings.Join(segs, sep)
RECURSIVE JoinWith(_, _)
JoinWith(segs, sep) ==
    IF segs = << >> THEN << >>
    ELSE IF Len(segs) = 1 THEN segs[1]
    ELSE segs[1] \o sep \o JoinWith(Tail(segs), sep)

(***************************************************************************)
(* path/filepath (unix)                                                    *)
(***************************************************************************)

Dot == <<".">>
DotDot == <<".", ".">>

\* the element stack of filepath.Clean: empty and "." elements dropped,
\* ".." cancelling the element before it (dropped at the root of a rooted
\* path, kept at the front of a relative one)
RECURSIVE CleanStack(_, _, _)
CleanStack(segs, stack, rooted) ==
    IF segs = << >> THEN stack
    ELSE LET e == Head(segs)
             next == IF e = << >> \/ e = Dot THEN stack
                     ELSE IF e = DotDot
                          THEN IF stack # << >> /\ Last(stack) # DotDot
                               THEN Upto(stack, Len(stack) - 1)
                               ELSE IF rooted THEN stack
                               ELSE Append(stack, e)
                     ELSE Append(stack, e)
         IN  CleanStack(Tail(segs), next, rooted)

IsAbs(s) == s # << >> /\ s[1] = "/"

\* filepath.Clean
Clean(s) ==
    LET body == JoinWith(CleanStack(Segments(s), << >>, IsAbs(s)), <<"/">>)
    IN  IF IsAbs(s) THEN <<"/">> \o body
        ELSE IF body = << >> THEN Dot
        ELSE body

\* filepath.Join(a, b): empty elements ignored, the rest joined and cleaned
Join(a, b) ==
    IF a # << >> THEN Clean(a \o <<"/">> \o b)
    ELSE IF b # << >> THEN Clean(b)
    ELSE << >>

\* filepath.Dir: everything up to the last separator, cleaned
Dir(s) == Clean(Upto(s, LastSlash(s)))

\* filepath.Base: the last element, trailing separators removed first
RECURSIVE StripTrailingSlashes(_)
StripTrailingSlashes(s) ==
    IF s # << >> /\ Last(s) = "/" THEN StripTrailingSlashes(Upto(s, Len(s) - 1))
    ELSE s

Base(s) ==
    IF s = << >> THEN Dot
    ELSE LET t == StripTrailingSlashes(s)
             u == From(t, LastSlash(t) + 1)
         IN  IF u = << >> THEN <<"/">> ELSE u


(***************************************************************************)
(* Path templater                                                          *)
(***************************************************************************)

\* the literal head of the placeholder regexp, "${.PVC."
PlaceholderHead == <<"$", "{", ".", "P", "V", "C", ".">>

LabelsDot == <<"l", "a", "b", "e", "l", "s", ".">>
AnnotationsDot == <<"a", "n", "n", "o", "t", "a", "t", "i", "o", "n", "s", ".">>

\* one match of `\${\.PVC\.((labels|annotations)\.(.*?)|.*?)}` whose text
\* between "${.PVC." and the first "}" after it is key: r[0] is whole,
\* r[2] is kind, and key is r[3] for a label or annotation, r[1] otherwise
Submatch(whole, inner) ==
    IF HasPrefix(inner, LabelsDot)
    THEN [whole |-> whole, kind |-> "labels", key |-> From(inner, Len(LabelsDot) + 1)]
    ELSE IF HasPrefix(inner, AnnotationsDot)
    THEN [whole |-> whole, kind |-> "annotations",
          key |-> From(inner, Len(AnnotationsDot) + 1)]
    ELSE [whole |-> whole, kind |-> "", key |-> inner]

\* pattern.FindAllStringSubmatch(str, -1): the leftmost matches, none
\* overlapping; the lazy .*? ends each at the first "}" after its head
RECURSIVE FindAllStringSubmatch(_)
FindAllStringSubmatch(str) ==
    LET i == Index(str, PlaceholderHead)
    IN  IF i = 0 THEN << >>
        ELSE LET body == From(str, i + Len(PlaceholderHead))
                 j == Index(body, <<"}">>)
             IN  IF j = 0 THEN << >>
                 ELSE << Submatch(SubSeq(str, i, i + Len(PlaceholderHead) + j - 1),
                                  Upto(body, j - 1)) >>
                      \o FindAllStringSubmatch(From(body, j + 1))

\* a Go map read: the zero value "" for a missing key
MapGet(m, k) == IF k \in DOMAIN m THEN m[k] ELSE << >>

\* the loop of stringParser: each match, in order, replaced everywhere in
\* the string as it stands after the replacements before it
RECURSIVE ReplaceMatches(_, _, _)
ReplaceMatches(meta, str, result) ==
    IF result = << >> THEN str
    ELSE LET r == Head(result)
             value == IF r.kind = "labels" THEN MapGet(meta.labels, r.key)
                      ELSE IF r.kind = "annotations" THEN MapGet(meta.annotations, r.key)
                      ELSE MapGet(meta.data, r.key)
         IN  ReplaceMatches(meta, ReplaceAll(str, r.whole, value), Tail(result))

stringParser(meta, str) == ReplaceMatches(meta, str, FindAllStringSubmatch(str))


(***************************************************************************)
(* Filesystem: dirs maps each directory node to its mode, files is the set *)
(* of regular-file nodes.  The handlers only pass absolute paths, which    *)
(* the kernel resolves segment by segment from the root.                   *)
(***************************************************************************)

Root == << >>

\* the node an absolute path names
Node(path) == CleanStack(Segments(path), << >>, TRUE)

IsUnder(n, m) == Len(m) <= Len(n) /\ SubSeq(n, 1, Len(m)) = m
StrictlyUnder(n, m) == IsUnder(n, m) /\ n # m
Parent(n) == Upto(n, Len(n) - 1)
Prefixes(n) == { Upto(n, i) : i \in 0 .. Len(n) }

Exists(fs, n) == n \in DOMAIN fs.dirs \/ n \in fs.files
HasChildren(fs, n) == \E m \in DOMAIN fs.dirs \cup fs.files : StrictlyUnder(m, n)

Restrict(f, S) == [x \in S |-> f[x]]

\* os.Stat: nil, ENOENT, or ENOTDIR when a regular file stands where the
\* path needs a directory
Stat(fs, path) ==
    LET n == Node(path)
    IN  IF \E q \in Prefixes(n) : q # n /\ q \in fs.files THEN "ENOTDIR"
        ELSE IF Exists(fs, n) THEN Nil
        ELSE "ENOENT"

\* an existence test that never reports a missing path
IsNotExist_Never(err) == FALSE

\* os.IsNotExist
IsNotExist(err) == err = "ENOENT"

\* the mode bits a new directory gets: the requested ones less the umask
Masked(perm) == IF perm = "0777" THEN "0777&^umask" ELSE "0755&^umask"

\* os.MkdirAll(path, perm): every missing directory down to path
MkdirAll(fs, path, perm) ==
    LET n == Node(path)
        missing == Prefixes(n) \ DOMAIN fs.dirs
    IN  IF \E q \in Prefixes(n) : q \in fs.files
        THEN [fs |-> fs, err |-> "ENOTDIR"]
        ELSE [fs |-> [fs EXCEPT !.dirs = [x \in DOMAIN fs.dirs \cup missing |->
                                            IF x \in missing THEN Masked(perm)
                                            ELSE fs.dirs[x]]],
              err |-> Nil]

\* os.Chmod(path, perm)
Chmod(fs, path, perm) ==
    LET n == Node(path)
    IN  IF n \in DOMAIN fs.dirs
        THEN [fs |-> [fs EXCEPT !.dirs[n] = perm], err |-> Nil]
        ELSE [fs |-> fs, err |-> Stat(fs, path)]

\* a removal that takes a directory together with what is in it
Remove_Force(fs, path) ==
    LET n == Node(path)
    IN  IF Stat(fs, path) # Nil THEN [fs |-> fs, err |-> Stat(fs, path)]
        ELSE IF n = Root THEN [fs |-> fs, err |-> "EBUSY"]
        ELSE [fs |-> [dirs |-> Restrict(fs.dirs, {m \in DOMAIN fs.dirs : ~IsUnder(m, n)}),
                      files |-> {m \in fs.files : ~IsUnder(m, n)}],
              err |-> Nil]

\* os.Remove(path): a file, or an empty directory other than the root
Remove(fs, path) ==
    LET n == Node(path)
    IN  IF Stat(fs, path) # Nil THEN [fs |-> fs, err |-> Stat(fs, path)]
        ELSE IF n = Root THEN [fs |-> fs, err |-> "EBUSY"]
        ELSE IF HasChildren(fs, n) THEN [fs |-> fs, err |-> "ENOTEMPTY"]
        ELSE [fs |-> [dirs |-> Restrict(fs.dirs, DOMAIN fs.dirs \ {n}),
                      files |-> fs.files \ {n}],
              err |-> Nil]

\* os.RemoveAll(path): path and all below it; nil when path is absent; the
\* root itself cannot be removed, only emptied
RemoveAll(fs, path) ==
    LET n == Node(path)
        keep(m) == ~IsUnder(m, n) \/ m = Root
        after == [dirs |-> Restrict(fs.dirs, {m \in DOMAIN fs.dirs : keep(m)}),
                  files |-> {m \in fs.files : keep(m)}]
    IN  IF Stat(fs, path) = "ENOENT" THEN [fs |-> fs, err |-> Nil]
        ELSE IF Stat(fs, path) = "ENOTDIR" THEN [fs |-> fs, err |-> "ENOTDIR"]
        ELSE IF n = Root THEN [fs |-> after, err |-> "EBUSY"]
        ELSE [fs |-> after, err |-> Nil]

\* a rename that leaves old in place: a copy of the tree to new
Rename_Copy(fs, old, new) ==
    LET o == Node(old)
        n == Node(new)
        moved(m) == n \o From(m, Len(o) + 1)
        go == {m \in DOMAIN fs.dirs : IsUnder(m, o)}
        after == [dirs |-> [x \in DOMAIN fs.dirs \cup {moved(m) : m \in go} |->
                              IF x \in DOMAIN fs.dirs THEN fs.dirs[x]
                              ELSE fs.dirs[o \o From(x, Len(n) + 1)]],
                  files |-> fs.files
                            \cup {moved(m) : m \in {f \in fs.files : IsUnder(f, o)}}]
    IN  IF Stat(fs, old) # Nil THEN [fs |-> fs, err |-> Stat(fs, old)]
        ELSE IF Parent(n) \notin DOMAIN fs.dirs THEN [fs |-> fs, err |-> "ENOENT"]
        ELSE [fs |-> after, err |-> Nil]

\* os.Rename(old, new) as rename(2): new may be an empty directory, which
\* old replaces; old cannot move below itself
Rename(fs, old, new) ==
    LET o == Node(old)
        n == Node(new)
        moved(m) == n \o From(m, Len(o) + 1)
        stay == {m \in DOMAIN fs.dirs : ~IsUnder(m, o) /\ m # n}
        go == {m \in DOMAIN fs.dirs : IsUnder(m, o)}
        after == [dirs |-> [x \in stay \cup {moved(m) : m \in go} |->
                              IF x \in stay THEN fs.dirs[x]
                              ELSE fs.dirs[o \o From(x, Len(n) + 1)]],
                  files |-> {m \in fs.files : ~IsUnder(m, o)}
                            \cup {moved(m) : m \in {f \in fs.files : IsUnder(f, o)}}]
    IN  IF Stat(fs, old) # Nil THEN [fs |-> fs, err |-> Stat(fs, old)]
        ELSE IF o = n THEN [fs |-> fs, err |-> Nil]
        ELSE IF o = Root THEN [fs |-> fs, err |-> "EBUSY"]
        ELSE IF IsUnder(n, o) THEN [fs |-> fs, err |-> "EINVAL"]
        ELSE IF n = Root \/ IsUnder(o, n) THEN [fs |-> fs, err |-> "ENOTEMPTY"]
        ELSE IF Parent(n) \notin DOMAIN fs.dirs THEN [fs |-> fs, err |-> "ENOENT"]
        ELSE IF o \in fs.files /\ n \in DOMAIN fs.dirs THEN [fs |-> fs, err |-> "EISDIR"]
        ELSE IF o \in DOMAIN fs.dirs /\ n \in fs.files THEN [fs |-> fs, err |-> "ENOTDIR"]
        ELSE IF n \in DOMAIN fs.dirs /\ HasChildren(fs, n)
        THEN [fs |-> fs, err |-> "ENOTEMPTY"]
        ELSE [fs |-> after, err |-> Nil]


(***************************************************************************)
(* The provisioner                                                         *)
(***************************************************************************)

mountPath ==
    <<"/", "p", "e", "r", "s", "i", "s", "t", "e", "n", "t",
      "v", "o", "l", "u", "m", "e", "s", "/">>

archiveSubPath == <<"_", "a", "r", "c", "h", "i", "v", "e", "d", "_">>

ProvisioningFinished == "Finished"

\* a nil *v1.PersistentVolume, a nil *storage.StorageClass
NilVolume == [name |-> << >>, path |-> << >>]
NilClass == [parameters |-> [k \in {} |-> ""]]

Digit(d) == << <<"0">>, <<"1">>, <<"2">>, <<"3">>, <<"4">>, <<"5">>,
               <<"6">>, <<"7">>, <<"8">>, <<"9">> >>[d + 1]

\* time.Now().Format("200601021504"): twelve digits, to the minute.  The
\* clock counts minutes from 2024-05-01 10:30.
TimeFormat(t) ==
    <<"2", "0", "2", "4", "0", "5", "0", "1", "1", "0">>
    \o Digit((30 + t) \div 10) \o Digit((30 + t) % 10)

\* a parse that takes every text for true
ParseBool_AlwaysTrue(str) == [value |-> TRUE, err |-> Nil]

\* a parse that takes every text it does not know for false
ParseBool_Lenient(str) ==
    [value |-> str \in {"1", "t", "T", "TRUE", "true", "True"}, err |-> Nil]

\* strconv.ParseBool
ParseBool(str) ==
    IF str \in {"1", "t", "T", "TRUE", "true", "True"} THEN [value |-> TRUE, err |-> Nil]
    ELSE IF str \in {"0", "f", "F", "FALSE", "false", "False"}
    THEN [value |-> FALSE, err |-> Nil]
    ELSE [value |-> FALSE, err |-> "ErrSyntax"]

\* a Provision that does not look at the selector
SelectorSet_Ignored(options) == FALSE

\* options.PVC.Spec.Selector != nil, line 88
SelectorSet(options) == options.selector # Nil

\* a default name that nests namespace, name and ID as directories
DefaultName_Nested(options) ==
    JoinWith(<<options.namespace, options.name, options.pvName>>, <<"/">>)

\* strings.Join([]string{pvcNamespace, pvcName, options.PVName}, "-"), line 96
DefaultName(options) ==
    JoinWith(<<options.namespace, options.name, options.pvName>>, <<"-">>)

\* a Provision that takes the rendered pathPattern even when it is empty
UseCustomPath_Always(exists, customPath) == exists

\* exists, and customPath != "", lines 112-114
UseCustomPath(exists, customPath) == exists /\ customPath # << >>

\* Provision, lines 85-150.  fault is the I/O error, if any, that the
\* filesystem answers MkdirAll or Chmod with (read-only or squashed export).
Provision(fs, pPath, options, fault) ==
    LET pvName == DefaultName(options)
        metadata == [data |-> (<<"n", "a", "m", "e">> :> options.name)
                              @@ (<<"n", "a", "m", "e", "s", "p", "a", "c", "e">>
                                    :> options.namespace)
                              @@ (<<"p", "v", "n", "a", "m", "e">> :> options.pvName),
                     labels |-> options.labels,
                     annotations |-> options.annotations]
        exists == "pathPattern" \in DOMAIN options.parameters
        customPath == IF exists THEN stringParser(metadata, options.parameters["pathPattern"])
                      ELSE << >>
        override == UseCustomPath(exists, customPath)
        fullPath == IF override THEN Join(mountPath, customPath) ELSE Join(mountPath, pvName)
        path == IF override THEN Join(pPath, customPath) ELSE Join(pPath, pvName)
        made == IF fault = "mkdir" THEN [fs |-> fs, err |-> "EROFS"]
                ELSE MkdirAll(fs, fullPath, "0777")
        moded == IF fault = "chmod" THEN [fs |-> made.fs, err |-> "EPERM"]
                 ELSE Chmod(made.fs, fullPath, "0777")
    IN  IF SelectorSet(options)
        THEN [pv |-> NilVolume, state |-> ProvisioningFinished,
              err |-> "claim Selector is not supported", fs |-> fs, fullPath |-> << >>]
        ELSE IF made.err # Nil
        THEN [pv |-> NilVolume, state |-> ProvisioningFinished, err |-> made.err,
              fs |-> made.fs, fullPath |-> fullPath]
        ELSE IF moded.err # Nil
        THEN [pv |-> NilVolume, state |-> "", err |-> moded.err,
              fs |-> moded.fs, fullPath |-> fullPath]
        ELSE [pv |-> [name |-> options.pvName, path |-> path],
              state |-> ProvisioningFinished, err |-> Nil,
              fs |-> moded.fs, fullPath |-> fullPath]

\* pruneEmptyParents, lines 152-160.  removed lists the nodes os.Remove
\* took away, each with the number of entries it held at that moment.
RECURSIVE pruneEmptyParents(_, _)
pruneEmptyParents(fs, path) ==
    IF Clean(path) = Clean(mountPath) THEN [fs |-> fs, removed |-> << >>]
    ELSE LET r == Remove(fs, path)
         IN  IF r.err = Nil
             THEN LET up == pruneEmptyParents(r.fs, Dir(path))
                  IN  [fs |-> up.fs,
                       removed |-> << [node |-> Node(path),
                                       entries |-> Cardinality(
                                           {m \in DOMAIN fs.dirs \cup fs.files :
                                              StrictlyUnder(m, Node(path))})] >>
                                   \o up.removed]
             ELSE [fs |-> fs, removed |-> << >>]

\* deleteAndPruneEmptyParents, lines 162-171
deleteAndPruneEmptyParents(fs, path) ==
    LET r == RemoveAll(fs, path)
    IN  IF r.err # Nil THEN [fs |-> r.fs, err |-> r.err, removed |-> << >>]
        ELSE LET pr == pruneEmptyParents(r.fs, Dir(path))
             IN  [fs |-> pr.fs, err |-> Nil, removed |-> pr.removed]

\* an archive name that keeps only the leaf of the path
buildArchivePath_LeafOnly(path, t) ==
    [overflow |-> FALSE,
     path |-> archiveSubPath \o <<"/">> \o TimeFormat(t) \o <<".">> \o Base(path)]

\* buildArchivePath, lines 173-178, at clock t.  The recursion never ends
\* when the walk up from path misses mountPath: filepath.Dir stays at "/"
\* (or "."), the goroutine stack overflows and the process dies; overflow
\* says so.
RECURSIVE buildArchivePath(_, _)
buildArchivePath(path, t) ==
    IF Clean(path) = Clean(mountPath)
    THEN [overflow |-> FALSE, path |-> archiveSubPath \o <<"/">> \o TimeFormat(t)]
    ELSE IF Dir(path) = path THEN [overflow |-> TRUE, path |-> << >>]
    ELSE LET up == buildArchivePath(Dir(path), t)
         IN  IF up.overflow THEN up
             ELSE [overflow |-> FALSE, path |-> up.path \o <<".">> \o Base(path)]

StackOverflow == "fatal error: stack overflow"

\* a lookup that answers a failure with a class without parameters
getClassForVolume_Default(client, className, answer) ==
    IF client = Nil \/ className = "" \/ answer.err # Nil
    THEN [class |-> NilClass, err |-> Nil]
    ELSE [class |-> answer.class, err |-> Nil]

\* getClassForVolume, lines 239-253.  className is the class reference the
\* volume carries, answer what the API server returns for that name: a
\* StorageClass, or an error.
getClassForVolume(client, className, answer) ==
    IF client = Nil THEN [class |-> NilClass, err |-> "cannot get kube client"]
    ELSE IF className = "" THEN [class |-> NilClass, err |-> "volume has no storage class"]
    ELSE IF answer.err # Nil THEN [class |-> NilClass, err |-> answer.err]
    ELSE [class |-> answer.class, err |-> Nil]

\* the archive branch of Delete, lines 221-235
Archive(fs, oldPath, t) ==
    LET built == buildArchivePath(oldPath, t)
        archivePath == Join(mountPath, built.path)
        archiveDir == Join(mountPath, archiveSubPath)
        ensured == IF IsNotExist(Stat(fs, archiveDir))
                   THEN MkdirAll(fs, archiveDir, "0755").fs
                   ELSE fs
        moved == Rename(ensured, oldPath, archivePath)
        pr == pruneEmptyParents(moved.fs, Dir(oldPath))
    IN  IF built.overflow
        THEN [fs |-> fs, err |-> StackOverflow, removed |-> << >>, archivePath |-> << >>]
        ELSE IF moved.err = Nil
        THEN [fs |-> pr.fs, err |-> Nil, removed |-> pr.removed, archivePath |-> archivePath]
        ELSE [fs |-> moved.fs, err |-> moved.err, removed |-> << >>,
              archivePath |-> archivePath]

\* a decision that reads archiveOnDelete before onDelete
Decide_ArchiveFirst(parameters) ==
    LET onDelete == IF "onDelete" \in DOMAIN parameters THEN parameters["onDelete"] ELSE ""
        exists == "archiveOnDelete" \in DOMAIN parameters
        parsed == ParseBool(parameters["archiveOnDelete"])
    IN  IF exists /\ parsed.err # Nil THEN [do |-> "fail", err |-> parsed.err]
        ELSE IF exists /\ ~parsed.value THEN [do |-> "delete", err |-> Nil]
        ELSE IF onDelete = "delete" THEN [do |-> "delete", err |-> Nil]
        ELSE IF onDelete = "retain" THEN [do |-> "retain", err |-> Nil]
        ELSE [do |-> "archive", err |-> Nil]

\* the policy decision of Delete, lines 199-219: onDelete first, then
\* archiveOnDelete
Decide(parameters) ==
    LET onDelete == IF "onDelete" \in DOMAIN parameters THEN parameters["onDelete"] ELSE ""
        exists == "archiveOnDelete" \in DOMAIN parameters
        parsed == ParseBool(parameters["archiveOnDelete"])
    IN  IF onDelete = "delete" THEN [do |-> "delete", err |-> Nil]
        ELSE IF onDelete = "retain" THEN [do |-> "retain", err |-> Nil]
        ELSE IF exists /\ parsed.err # Nil THEN [do |-> "fail", err |-> parsed.err]
        ELSE IF exists /\ ~parsed.value THEN [do |-> "delete", err |-> Nil]
        ELSE [do |-> "archive", err |-> Nil]

\* Delete, lines 180-236, of a volume whose NFS path is path
Delete(fs, pPath, client, path, className, answer, t) ==
    LET oldPath == Replace1(path, pPath, mountPath)
        got == getClassForVolume(client, className, answer)
        decision == Decide(got.class.parameters)
        none == [fs |-> fs, removed |-> << >>, archivePath |-> << >>, oldPath |-> oldPath]
        with(r) == [fs |-> r.fs, err |-> r.err, removed |-> r.removed,
                    archivePath |-> << >>, oldPath |-> oldPath]
    IN  IF IsNotExist(Stat(fs, oldPath)) THEN none @@ [err |-> Nil]
        ELSE IF got.err # Nil THEN none @@ [err |-> got.err]
        ELSE IF decision.do = "delete" THEN with(deleteAndPruneEmptyParents(fs, oldPath))
        ELSE IF decision.do = "retain" THEN none @@ [err |-> Nil]
        ELSE IF decision.do = "fail" THEN none @@ [err |-> decision.err]
        ELSE Archive(fs, oldPath, t) @@ [oldPath |-> oldPath]

(***************************************************************************)
(* The state machine: the external controller calls Provision and Delete,  *)
(* one call at a time, and takes what they return; the clock advances;     *)
(* the workloads write into the volumes they mount.                        *)
(***************************************************************************)

VARIABLES
    fs,       \* the provisioner's filesystem: [dirs, files]
    pPath,    \* nfsProvisioner.path, NFS_PATH
    client,   \* nfsProvisioner.client: Nil, or the clientset
    now,      \* the clock, in minutes
    pvs,      \* the volumes the controller holds
    claimed,  \* the claims the controller has called Provision for
    call      \* the call that has just returned, not yet taken: [op |-> Nil] when none

vars == <<fs, pPath, client, now, pvs, claimed, call>>

MaxTime == 1

Str_ns == <<"n", "s">>
Key_t == <<"t">>

\* "${.PVC.labels.t}/${.PVC.name}"
PatternLabel ==
    PlaceholderHead \o LabelsDot \o Key_t \o <<"}", "/">>
    \o PlaceholderHead \o <<"n", "a", "m", "e", "}">>

\* "${.PVC.annotations.t}"
PatternAnnotation == PlaceholderHead \o AnnotationsDot \o Key_t \o <<"}">>

\* "${.PVC.annotations.t}/${.PVC.namespace}/${.PVC.name}"
PatternNested ==
    PlaceholderHead \o AnnotationsDot \o Key_t \o <<"}", "/">>
    \o PlaceholderHead \o <<"n", "a", "m", "e", "s", "p", "a", "c", "e", "}", "/">>
    \o PlaceholderHead \o <<"n", "a", "m", "e", "}">>

Patterns == {PatternLabel, PatternAnnotation, PatternNested}

NoMap == [k \in {} |-> << >>]

\* the claims: namespace, name, labels, annotations, and the volume name the
\* controller generates for the claim.  A label value is a name; an
\* annotation value is any text.
Claims ==
    { [namespace |-> Str_ns, name |-> <<"a">>, pvName |-> <<"p", "1">>,
       labels |-> Key_t :> Str_ns, annotations |-> Key_t :> DotDot],
      [namespace |-> Str_ns, name |-> <<"b">>, pvName |-> <<"p", "2">>,
       labels |-> Key_t :> Str_ns, annotations |-> Key_t :> Str_ns] }

PathParameters == {NoMap} \cup { "pathPattern" :> p : p \in Patterns }

ProvisionOptions ==
    { [selector |-> sel, namespace |-> c.namespace, name |-> c.name, pvName |-> c.pvName,
       labels |-> c.labels, annotations |-> c.annotations, parameters |-> ps] :
        sel \in {Nil, "selector"}, c \in Claims, ps \in PathParameters }

Faults == {Nil, "mkdir", "chmod"}

ExportRoots == { <<"/", "e">>, <<"/", "e", "/", "d">> }

OnDeleteParameters ==
    {NoMap} \cup { "onDelete" :> v : v \in {"delete", "retain"} }

ArchiveOnDeleteParameters ==
    {NoMap} \cup { "archiveOnDelete" :> v : v \in {"true", "false", "maybe"} }

\* what the API server answers the class fetch with
ClassAnswers ==
    { [class |-> [parameters |-> o @@ a], err |-> Nil] :
        o \in OnDeleteParameters, a \in ArchiveOnDeleteParameters }
    \cup { [class |-> NilClass, err |-> "NotFound"] }

\* the class reference of the volume and the answer to its fetch
Lookups ==
    { [className |-> "nfs-client", answer |-> a] : a \in ClassAnswers }
    \cup { [className |-> "", answer |-> [class |-> NilClass, err |-> "NotFound"]] }

Idle == [op |-> Nil]

Init ==
    /\ fs = [dirs |-> (Root :> "0755") @@ (Node(mountPath) :> "0777"), files |-> {}]
    /\ pPath \in ExportRoots
    /\ client \in {Nil, "clientset"}
    /\ now = 0
    /\ pvs = {}
    /\ claimed = {}
    /\ call = Idle

\* the controller calls Provision, once for each claim, with one of Options
ProvisionFrom(Options) ==
    /\ call = Idle
    /\ \E options \in Options, fault \in Faults :
         /\ options.pvName \notin claimed
         /\ claimed' = claimed \cup {options.pvName}
         /\ \E r \in {Provision(fs, pPath, options, fault)} :
             /\ fs' = r.fs
             /\ call' = [op |-> "Provision", options |-> options, fault |-> fault,
                         pv |-> r.pv, state |-> r.state, err |-> r.err,
                         fullPath |-> r.fullPath]
    /\ UNCHANGED <<pPath, client, now, pvs>>

ProvisionCall == ProvisionFrom(ProvisionOptions)

\* the controller calls Delete for a volume it holds.  again: this is the
\* same release event delivered once more, right after a Delete of the same
\* volume, under the same class, returned nil.  stat is what os.Stat
\* answers for the volume's local path as the call begins.
DeleteCall ==
    /\ \E v \in pvs, lookup \in Lookups, again \in BOOLEAN :
         /\ again = (/\ call.op = "Delete"
                     /\ call.err = Nil
                     /\ call.volume = v
                     /\ call.lookup = lookup)
         /\ call = Idle \/ again
         /\ \E r \in {Delete(fs, pPath, client, v.path, lookup.className, lookup.answer, now)} :
             /\ fs' = r.fs
             /\ call' = [op |-> "Delete", volume |-> v, lookup |-> lookup,
                         t |-> now, again |-> again, stat |-> Stat(fs, r.oldPath),
                         err |-> r.err, oldPath |-> r.oldPath,
                         archivePath |-> r.archivePath, removed |-> r.removed]
    /\ UNCHANGED <<pPath, client, now, pvs, claimed>>

\* the controller takes what the call returned: it stores a provisioned
\* volume, and drops a volume whose Delete returned nil; a process that
\* died of a stack overflow has been restarted
Return ==
    /\ call # Idle
    /\ pvs' = IF call.op = "Provision" /\ call.err = Nil THEN pvs \cup {call.pv}
              ELSE IF call.op = "Delete" /\ call.err = Nil THEN pvs \ {call.volume}
              ELSE pvs
    /\ call' = Idle
    /\ UNCHANGED <<fs, pPath, client, now, claimed>>

\* a minute passes, between calls or before a release event is delivered
\* once more
Tick ==
    /\ call = Idle \/ (call.op = "Delete" /\ call.err = Nil)
    /\ now < MaxTime
    /\ now' = now + 1
    /\ UNCHANGED <<fs, pPath, client, pvs, claimed, call>>

\* the directory of the export that a workload mounting server:path sees,
\* as the provisioner's mount of the export shows it
Exported(path) == Node(mountPath) \o From(Node(path), Len(Node(pPath)) + 1)

\* a workload writes a file into the volume it has mounted
WriteFile ==
    /\ call = Idle
    /\ \E v \in pvs :
         /\ IsUnder(Node(v.path), Node(pPath))
         /\ Exported(v.path) \in DOMAIN fs.dirs
         /\ Append(Exported(v.path), <<"f">>) \notin DOMAIN fs.dirs
         /\ fs' = [fs EXCEPT !.files = @ \cup {Append(Exported(v.path), <<"f">>)}]
    /\ UNCHANGED <<pPath, client, now, pvs, claimed, call>>

Next == ProvisionCall \/ DeleteCall \/ Return \/ Tick \/ WriteFile

Spec == Init /\ [][Next]_vars


(***************************************************************************)
(* The steps in which a handler runs: call' holds what it was given and    *)
(* what it returned, fs the filesystem it found, fs' the one it left.      *)
(***************************************************************************)

ProvisionStep == call = Idle /\ call'.op = "Provision"
DeleteStep == now' = now /\ call'.op = "Delete"

Dirs(f) == DOMAIN f.dirs
Nodes(f) == DOMAIN f.dirs \cup f.files

\* the provisioner's local mount root
MountRoot == Node(mountPath)

\* C1: for every request that carries a selector, Provision returns an
\* error with the outcome "finished" and no volume, and leaves the
\* filesystem as it was
C1_SelectorRejected ==
    [][ (ProvisionStep /\ call'.options.selector # Nil)
        => /\ call'.err # Nil
           /\ call'.state = ProvisioningFinished
           /\ call'.pv = NilVolume
           /\ fs' = fs ]_vars

C1_Witness ==
    /\ call.op = "Provision"
    /\ call.options.selector # Nil
    /\ "pathPattern" \in DOMAIN call.options.parameters
    /\ call.fault = Nil
    /\ call.err # Nil
    /\ pvs # {}

\* the directory name namespace-name-generatedID of a request
ExpectedLeaf(o) == o.namespace \o <<"-">> \o o.name \o <<"-">> \o o.pvName

\* C2: for every request without a pathPattern and without a selector, a
\* successful Provision creates the directory
\* <local mount root>/<namespace>-<name>-<generatedID>, nothing else but
\* missing ancestors of it, and returns a volume whose network path is
\* <export root>/<namespace>-<name>-<generatedID>
C2_DefaultDirectory ==
    [][ (/\ ProvisionStep
         /\ call'.options.selector = Nil
         /\ "pathPattern" \notin DOMAIN call'.options.parameters
         /\ call'.err = Nil)
        => LET target == Append(MountRoot, ExpectedLeaf(call'.options))
           IN  /\ target \in Dirs(fs')
               /\ Dirs(fs') \ Dirs(fs) \subseteq Prefixes(target)
               /\ Dirs(fs) \subseteq Dirs(fs')
               /\ fs'.files = fs.files
               /\ call'.pv.path = pPath \o <<"/">> \o ExpectedLeaf(call'.options)
               /\ call'.pv.name = call'.options.pvName ]_vars

C2_Witness ==
    /\ call.op = "Provision"
    /\ call.options.selector = Nil
    /\ "pathPattern" \notin DOMAIN call.options.parameters
    /\ call.err = Nil
    /\ Append(MountRoot, ExpectedLeaf(call.options)) \in Dirs(fs)
    /\ call.pv.path = pPath \o <<"/">> \o ExpectedLeaf(call.options)
    /\ pvs # {}

\* the local path Delete derives from the network path of a volume: the
\* first occurrence of the export root replaced by the mount root
Translated(v) == Replace1(v.path, pPath, mountPath)

\* the class lookup of a Delete call succeeds: a client is configured, the
\* volume names a class, and the API server returns it
ClassFound(c) ==
    /\ client # Nil
    /\ c.lookup.className # ""
    /\ c.lookup.answer.err = Nil

\* the parameters of the class that governs a Delete call
Governing(c) == c.lookup.answer.class.parameters

Param(c, k) == IF k \in DOMAIN Governing(c) THEN Governing(c)[k] ELSE "(unset)"

\* C3: a Delete of a volume whose translated local path does not exist
\* returns success and leaves the filesystem as it was, whatever the
\* client, the class lookup and the class parameters are
C3_MissingPathSkipped ==
    [][ (DeleteStep /\ Stat(fs, Translated(call'.volume)) = "ENOENT")
        => (call'.err = Nil /\ fs' = fs) ]_vars

C3_Witness ==
    /\ call.op = "Delete"
    /\ ~call.again
    /\ call.stat = "ENOENT"
    /\ ~ClassFound(call)
    /\ call.err = Nil
    /\ fs.files # {}

\* C4: a Delete that follows a successful Delete of the same volume, the
\* governing class unchanged, returns success and leaves the filesystem as
\* the first one left it
C4_DeleteIdempotent ==
    [][ (DeleteStep /\ call'.again) => (call'.err = Nil /\ fs' = fs) ]_vars

C4_Witness ==
    /\ call.op = "Delete"
    /\ call.again
    /\ ClassFound(call)
    /\ Governing(call) = NoMap
    /\ call.stat = "ENOENT"
    /\ call.t = MaxTime
    /\ call.err = Nil
    /\ \E n \in Dirs(fs) : StrictlyUnder(n, Append(MountRoot, archiveSubPath))

\* C5: when the governing class sets onDelete to retain, Delete returns
\* success and leaves the filesystem as it was, whatever archiveOnDelete is
C5_RetainKeeps ==
    [][ (DeleteStep /\ ClassFound(call') /\ Param(call', "onDelete") = "retain")
        => (call'.err = Nil /\ fs' = fs) ]_vars

C5_Witness ==
    /\ call.op = "Delete"
    /\ ClassFound(call)
    /\ Param(call, "onDelete") = "retain"
    /\ Param(call, "archiveOnDelete") = "false"
    /\ call.stat = Nil
    /\ Node(call.oldPath) \in Dirs(fs)
    /\ call.err = Nil

\* C10: when the local path exists and the class lookup fails (no client,
\* the volume names no class, or the class cannot be fetched), Delete
\* returns an error and leaves the filesystem as it was
C10_LookupFailureIsError ==
    [][ (DeleteStep /\ Stat(fs, Translated(call'.volume)) = Nil /\ ~ClassFound(call'))
        => (call'.err # Nil /\ fs' = fs) ]_vars

C10_Witness ==
    /\ call.op = "Delete"
    /\ call.stat = Nil
    /\ client # Nil
    /\ call.lookup.className # ""
    /\ call.lookup.answer.err # Nil
    /\ call.err # Nil
    /\ Node(call.oldPath) \in Dirs(fs)

\* the archive namespace under the local mount root
ArchiveRoot == Append(MountRoot, archiveSubPath)

\* the nodes of f at or below n, relative to n
Subtree(f, n) ==
    [dirs |-> {From(m, Len(n) + 1) : m \in {x \in Dirs(f) : IsUnder(x, n)}},
     files |-> {From(m, Len(n) + 1) : m \in {x \in f.files : IsUnder(x, n)}}]

\* C6: when the governing class sets onDelete to delete, whatever
\* archiveOnDelete is, after Delete of an existing directory the directory
\* and its subtree no longer exist, the archive namespace holds what it
\* held before, and no empty ancestor below the mount root is left
C6_DeleteRemoves ==
    [][ (/\ DeleteStep
         /\ ClassFound(call')
         /\ Param(call', "onDelete") = "delete"
         /\ Stat(fs, Translated(call'.volume)) = Nil)
        => LET d == Node(Translated(call'.volume))
           IN  /\ \A m \in Nodes(fs') : ~IsUnder(m, d)
               /\ Subtree(fs', ArchiveRoot) = Subtree(fs, ArchiveRoot)
               /\ \A q \in Prefixes(d) \ {d} :
                    (StrictlyUnder(q, MountRoot) /\ q \in Dirs(fs'))
                    => HasChildren(fs', q) ]_vars

\* a Delete under onDelete=delete that removed a nested directory and
\* pruned an ancestor, archiveOnDelete asking for an archive
C6_Holds_Witness ==
    /\ call.op = "Delete"
    /\ ClassFound(call)
    /\ Param(call, "onDelete") = "delete"
    /\ Param(call, "archiveOnDelete") = "true"
    /\ call.stat = Nil
    /\ call.err = Nil
    /\ Len(call.removed) > 0
    /\ Node(call.oldPath) \notin Dirs(fs)

\* the name the archive gives a directory d below the mount root at clock t:
\* the timestamp and every segment of d below the mount root, joined by "."
ArchiveName(d, t) ==
    JoinWith(<<TimeFormat(t)>> \o From(d, Len(MountRoot) + 1), <<".">>)

\* the class of a Delete call asks for the default, the archive: onDelete
\* unset, archiveOnDelete unset or true
DefaultCase(c) ==
    /\ ClassFound(c)
    /\ "onDelete" \notin DOMAIN Governing(c)
    /\ Param(c, "archiveOnDelete") \in {"(unset)", "true"}

\* C7: in the default case a successful Delete of an existing directory
\* leaves nothing at the original path and its contents at
\* <mount root>/_archived_/<timestamp>.<seg1>...<leaf>, the segments being
\* those from below the mount root down to the leaf
C7_ArchiveMoves ==
    [][ (/\ DeleteStep
         /\ DefaultCase(call')
         /\ Stat(fs, Translated(call'.volume)) = Nil
         /\ call'.err = Nil)
        => LET d == Node(Translated(call'.volume))
               target == Append(ArchiveRoot, ArchiveName(d, now))
           IN  /\ StrictlyUnder(d, MountRoot)
               /\ \A m \in Nodes(fs') : ~IsUnder(m, d)
               /\ Subtree(fs', target) = Subtree(fs, d)
               /\ Node(call'.archivePath) = target ]_vars

C7_Witness ==
    /\ call.op = "Delete"
    /\ DefaultCase(call)
    /\ call.stat = Nil
    /\ call.err = Nil
    /\ call.t = MaxTime
    /\ Len(Node(call.oldPath)) > Len(MountRoot) + 1
    /\ Node(call.archivePath) = Append(ArchiveRoot, ArchiveName(Node(call.oldPath), call.t))
    /\ Subtree(fs, Node(call.archivePath)).files # {}

\* C8: every directory that the pruning of a Delete removes is empty when
\* it is removed and lies strictly below the local mount root
C8_PruneBounded ==
    [][ DeleteStep
        => \A i \in 1..Len(call'.removed) :
             /\ call'.removed[i].entries = 0
             /\ StrictlyUnder(call'.removed[i].node, MountRoot) ]_vars

\* C8, the part that holds: pruning removes only empty directories
C8_PruneOnlyEmpty ==
    [][ DeleteStep
        => \A i \in 1..Len(call'.removed) : call'.removed[i].entries = 0 ]_vars

\* C9: the local path Delete derives from the network path of the volume
\* that a successful Provision returns is the directory that Provision
\* created
C9_SameDirectory ==
    [][ (ProvisionStep /\ call'.err = Nil)
        => /\ Node(call'.fullPath) \in Dirs(fs')
           /\ Node(Translated(call'.pv)) = Node(call'.fullPath) ]_vars

\* C11: on every return path of Provision (success, selector rejected,
\* directory creation failed, permission re-assertion failed) the outcome
\* returned is "finished"
C11_AlwaysFinished ==
    [][ ProvisionStep => call'.state = ProvisioningFinished ]_vars

\* the return paths of Provision other than the failed Chmod report
\* "finished"
C11_FinishedButChmod ==
    [][ (ProvisionStep /\ call'.fault # "chmod")
        => call'.state = ProvisioningFinished ]_vars

(***************************************************************************)
(* Claims whose metadata misses what the pathPattern asks for              *)
(***************************************************************************)

\* a claim without labels and annotations, and one whose annotation t is
\* the empty string
BareClaims ==
    { [namespace |-> Str_ns, name |-> <<"c">>, pvName |-> <<"p", "3">>,
       labels |-> NoMap, annotations |-> NoMap],
      [namespace |-> Str_ns, name |-> <<"d">>, pvName |-> <<"p", "4">>,
       labels |-> Key_t :> Str_ns, annotations |-> Key_t :> << >>] }

BareOptions ==
    { [selector |-> Nil, namespace |-> c.namespace, name |-> c.name, pvName |-> c.pvName,
       labels |-> c.labels, annotations |-> c.annotations,
       parameters |-> "pathPattern" :> p] :
        c \in BareClaims, p \in {PatternAnnotation, PatternLabel} }

ProvisionBareCall == ProvisionFrom(BareOptions)

NextBare == ProvisionBareCall \/ DeleteCall \/ Return \/ Tick \/ WriteFile

SpecBare == Init /\ [][NextBare]_vars

\* the pathPattern of the request is "${.PVC.annotations.t}" and the claim
\* has no annotation t, or an empty one: the pattern renders to ""
RendersEmpty(o) ==
    /\ "pathPattern" \in DOMAIN o.parameters
    /\ o.parameters["pathPattern"] = PatternAnnotation
    /\ (Key_t \notin DOMAIN o.annotations \/ o.annotations[Key_t] = << >>)

\* C12: when the pathPattern renders to the empty string, a successful
\* Provision creates <mount root>/<namespace>-<name>-<generatedID>, returns
\* <export root>/<namespace>-<name>-<generatedID>, and leaves the mount
\* root itself as it was
C12_EmptyFallsBack ==
    [][ (ProvisionStep /\ RendersEmpty(call'.options) /\ call'.err = Nil)
        => LET target == Append(MountRoot, ExpectedLeaf(call'.options))
           IN  /\ Node(call'.fullPath) = target
               /\ target \in Dirs(fs')
               /\ fs'.dirs[target] = "0777"
               /\ fs'.dirs[MountRoot] = fs.dirs[MountRoot]
               /\ Dirs(fs') \ Dirs(fs) \subseteq {target}
               /\ call'.pv.path = pPath \o <<"/">> \o ExpectedLeaf(call'.options) ]_vars

C12_Witness ==
    /\ call.op = "Provision"
    /\ RendersEmpty(call.options)
    /\ Key_t \notin DOMAIN call.options.annotations
    /\ call.err = Nil
    /\ Append(MountRoot, ExpectedLeaf(call.options)) \in Dirs(fs)
    /\ call.pv.path = pPath \o <<"/">> \o ExpectedLeaf(call.options)
    /\ pvs # {}

(***************************************************************************)
(* The pure functions, applied to inputs of their own                      *)
(***************************************************************************)

Str_name == <<"n", "a", "m", "e">>

\* "${.PVC.name}"
PlaceholderName == PlaceholderHead \o Str_name \o <<"}">>

\* the metadata of a claim ns/c with volume name p: label t absent or a
\* name, annotation t absent or any text, the text of a placeholder included
Metadatas ==
    { [data |-> (Str_name :> <<"c">>)
                @@ (<<"n", "a", "m", "e", "s", "p", "a", "c", "e">> :> Str_ns)
                @@ (<<"p", "v", "n", "a", "m", "e">> :> <<"p">>),
       labels |-> l, annotations |-> a] :
        l \in {NoMap, Key_t :> Str_ns},
        a \in {NoMap, Key_t :> <<"x">>, Key_t :> DotDot, Key_t :> PlaceholderName} }

Templates ==
    { PatternLabel, PatternAnnotation, PatternNested,
      \* "${.PVC.annotations.t}/${.PVC.name}"
      PatternAnnotation \o <<"/">> \o PlaceholderName,
      \* "${.PVC.name}-${.PVC.name}"
      PlaceholderName \o <<"-">> \o PlaceholderName,
      \* "a${.PVC.other}b"
      <<"a">> \o PlaceholderHead \o <<"o", "t", "h", "e", "r", "}", "b">>,
      \* "${.PVC.name", never closed
      PlaceholderHead \o Str_name,
      <<"x", "/", "y">> }

\* Provision renders a pathPattern, line 113
RenderCall ==
    /\ call = Idle
    /\ \E meta \in Metadatas, str \in Templates :
         call' = [op |-> "Render", meta |-> meta, str |-> str,
                  out |-> stringParser(meta, str)]
    /\ UNCHANGED <<fs, pPath, client, now, pvs, claimed>>

\* the value a placeholder stands for: "" when the metadata has none
Lookup(meta, r) ==
    LET m == IF r.kind = "labels" THEN meta.labels
             ELSE IF r.kind = "annotations" THEN meta.annotations
             ELSE meta.data
    IN  IF r.key \in DOMAIN m THEN m[r.key] ELSE << >>

\* the template with each placeholder occurrence replaced by its own value,
\* in one pass from left to right; the values are not read again
RECURSIVE SinglePass(_, _)
SinglePass(meta, str) ==
    LET i == Index(str, PlaceholderHead)
        body == From(str, i + Len(PlaceholderHead))
        j == Index(body, <<"}">>)
    IN  IF i = 0 \/ j = 0 THEN str
        ELSE Upto(str, i - 1)
             \o Lookup(meta, Submatch(SubSeq(str, i, i + Len(PlaceholderHead) + j - 1),
                                      Upto(body, j - 1)))
             \o SinglePass(meta, From(body, j + 1))

\* C13: the templater returns the template with each placeholder
\* occurrence replaced by its own value ("" on a miss), in a single pass:
\* text that a value brings in is not substituted again
C13_SinglePass ==
    call.op = "Render" => call.out = SinglePass(call.meta, call.str)

\* C13, the part that holds: when no value brings in the text of a
\* placeholder, the templater is the single pass
C13_SinglePassPlainValues ==
    (/\ call.op = "Render"
     /\ \A k \in DOMAIN call.meta.annotations :
          Index(call.meta.annotations[k], PlaceholderHead) = 0)
    => call.out = SinglePass(call.meta, call.str)

\* directories below the mount root: one segment or two, a segment being
\* "a", "b" or "a.b" (namespaces have no ".", claim names may)
Str_mount == Clean(mountPath)

ArchivableDirs ==
    LET segs == { <<"a">>, <<"b">>, <<"a", ".", "b">> }
    IN  { Str_mount \o <<"/">> \o x : x \in segs }
        \cup { Str_mount \o <<"/">> \o x \o <<"/">> \o y : x \in {<<"a">>, <<"b">>}, y \in segs }

\* Delete builds the archive paths of two directories in the same minute,
\* line 221
ArchivePathCall ==
    /\ call = Idle
    /\ \E p \in ArchivableDirs, q \in ArchivableDirs :
         call' = [op |-> "ArchivePath", p |-> p, q |-> q, t |-> now,
                  ap |-> Join(mountPath, buildArchivePath(p, now).path),
                  aq |-> Join(mountPath, buildArchivePath(q, now).path)]
    /\ UNCHANGED <<fs, pPath, client, now, pvs, claimed>>

NextPure == RenderCall \/ ArchivePathCall \/ Return

SpecPure == Init /\ [][NextPure]_vars

\* C20: in one minute, two distinct directories below the mount root get
\* distinct archive paths
C20_ArchivePathInjective ==
    (call.op = "ArchivePath" /\ call.p # call.q) => call.ap # call.aq

\* C20, the part that holds: directories of one segment each get distinct
\* archive paths
C20_InjectiveOnLeaves ==
    (/\ call.op = "ArchivePath"
     /\ call.p # call.q
     /\ Len(Node(call.p)) = Len(MountRoot) + 1
     /\ Len(Node(call.q)) = Len(MountRoot) + 1)
    => call.ap # call.aq

\* the class of a Delete call sets no onDelete and the archiveOnDelete v
NoOnDelete(c, v) ==
    /\ ClassFound(c)
    /\ "onDelete" \notin DOMAIN Governing(c)
    /\ Param(c, "archiveOnDelete") = v

\* C14: with archiveOnDelete false and no onDelete, after a successful
\* Delete of an existing directory the directory and its subtree no longer
\* exist, and nothing is new under the archive namespace
C14_ArchiveFalseRemoves ==
    [][ (/\ DeleteStep
         /\ NoOnDelete(call', "false")
         /\ Stat(fs, Translated(call'.volume)) = Nil
         /\ call'.err = Nil)
        => LET d == Node(Translated(call'.volume))
           IN  /\ \A m \in Nodes(fs') : ~IsUnder(m, d)
               /\ {m \in Nodes(fs') : IsUnder(m, ArchiveRoot)}
                    \subseteq {m \in Nodes(fs) : IsUnder(m, ArchiveRoot)} ]_vars

C14_Witness ==
    /\ call.op = "Delete"
    /\ NoOnDelete(call, "false")
    /\ call.stat = Nil
    /\ call.err = Nil
    /\ Node(call.oldPath) \notin Dirs(fs)
    /\ StrictlyUnder(Node(call.oldPath), MountRoot)
    /\ ArchiveRoot \notin Dirs(fs)

Outside(f) ==
    [dirs |-> Restrict(f.dirs, {m \in Dirs(f) : ~StrictlyUnder(m, MountRoot)}),
     files |-> {m \in f.files : ~StrictlyUnder(m, MountRoot)}]

\* C16: Provision and Delete change the filesystem only strictly inside the
\* local mount root: the directory Provision creates and chmods is a strict
\* descendant of the mount root, and no call creates, chmods, removes,
\* renames or prunes the mount root or anything outside it
C16_StaysInside ==
    [][ (ProvisionStep \/ DeleteStep)
        => /\ Outside(fs') = Outside(fs)
           /\ (call'.op = "Provision" /\ call'.fullPath # << >>)
                => StrictlyUnder(Node(call'.fullPath), MountRoot) ]_vars

\* C16, a part that holds: while the mount root stands, the calls for a
\* claim whose label and annotation values are names stay strictly inside it
C16_NamesStayInside ==
    [][ (/\ MountRoot \in Dirs(fs)
         /\ \/ ProvisionStep /\ call'.options.annotations[Key_t] # DotDot
            \/ DeleteStep /\ StrictlyUnder(Node(Translated(call'.volume)), MountRoot))
        => Outside(fs') = Outside(fs) ]_vars

\* the local directory of a volume the controller holds
DirOf(v) == Node(Translated(v))

\* from filesystem f to g the directory of the volume b, and what is in
\* it, stay as they were
Undisturbed(b, f, g) ==
    DirOf(b) \in Dirs(f)
    => (DirOf(b) \in Dirs(g) /\ Subtree(g, DirOf(b)) = Subtree(f, DirOf(b)))

\* C17: a Delete of a volume A, under any policy, leaves the directory of
\* every other volume B that is provisioned and not deleted in place, with
\* its contents, also when one directory is an ancestor of the other or B's
\* directory is empty; stated for directories strictly below the mount root
C17_OthersUndisturbed ==
    [][ (DeleteStep /\ StrictlyUnder(DirOf(call'.volume), MountRoot))
        => \A b \in pvs \ {call'.volume} :
             (DirOf(b) # DirOf(call'.volume) /\ StrictlyUnder(DirOf(b), MountRoot))
             => Undisturbed(b, fs, fs') ]_vars

\* C17, the part that holds: below the mount root, a Delete leaves alone
\* every volume whose directory is neither above nor below the deleted one
C17_UnrelatedUndisturbed ==
    [][ (DeleteStep /\ StrictlyUnder(DirOf(call'.volume), MountRoot))
        => \A b \in pvs \ {call'.volume} :
             (/\ StrictlyUnder(DirOf(b), MountRoot)
              /\ ~IsUnder(DirOf(b), DirOf(call'.volume))
              /\ ~IsUnder(DirOf(call'.volume), DirOf(b)))
             => Undisturbed(b, fs, fs') ]_vars

\* C18: every Delete of an existing local path returns, with nil or an
\* error, also for a path that is not below the mount root: the walk that
\* builds the archive path and the pruning walk both end
C18_DeleteTerminates ==
    [][ (DeleteStep /\ Stat(fs, Translated(call'.volume)) = Nil)
        => call'.err # StackOverflow ]_vars

\* C18, the part that holds: for a path at or below the mount root both
\* walks end
C18_TerminatesInside ==
    [][ (DeleteStep /\ IsUnder(DirOf(call'.volume), MountRoot))
        => call'.err # StackOverflow ]_vars

(***************************************************************************)
(* A Provision and a Delete of another volume, run by two workers of the   *)
(* controller, interleaved at their filesystem calls.  call holds both     *)
(* workers: the directory a that Delete removes, the directory b that      *)
(* Provision creates, the position of each worker and its error.           *)
(***************************************************************************)

Str_a == <<"n", "s", "/", "a">>
Str_ma == <<"n", "s", "/", "m", "/", "a">>
Str_b == <<"n", "s", "/", "b">>
Str_mb == <<"n", "s", "/", "m", "/", "b">>

\* os.Mkdir(n, perm), one mkdir(2): the parent must exist, n must not
Mkdir(f, n, perm) ==
    IF Exists(f, n) THEN [fs |-> f, err |-> "EEXIST"]
    ELSE IF Parent(n) \notin Dirs(f) THEN [fs |-> f, err |-> "ENOENT"]
    ELSE [fs |-> [f EXCEPT !.dirs = (n :> Masked(perm)) @@ f.dirs], err |-> Nil]

\* the prefix of target one segment longer than n
ChildToward(n, target) == SubSeq(target, 1, Len(n) + 1)

\* both workers at their first filesystem call; a was provisioned before
\* and may hold a file
InitRace ==
    /\ pPath = <<"/", "e">>
    /\ client = "clientset"
    /\ now = 0
    /\ pvs = {}
    /\ claimed = {}
    /\ \E a \in {Str_a, Str_ma}, b \in {Str_b, Str_mb},
          policy \in {"delete", "archive"}, full \in BOOLEAN :
         /\ fs = [dirs |-> [n \in {Root} \cup Prefixes(Node(Join(mountPath, a))) |->
                              IF n = Root THEN "0755" ELSE "0777"],
                  files |-> IF full THEN {Append(Node(Join(mountPath, a)), <<"f">>)}
                            ELSE {}]
         /\ call = [op |-> "Race", a |-> Join(mountPath, a), b |-> Join(mountPath, b),
                    policy |-> policy, created |-> FALSE,
                    p |-> [pc |-> "stat", cursor |-> Node(Join(mountPath, b)), err |-> Nil],
                    d |-> [pc |-> "stat", cursor |-> Dir(Join(mountPath, a)), err |-> Nil,
                           removed |-> << >>]]

\* the next filesystem call of Provision, lines 121-127.  os.MkdirAll
\* stats the path and its ancestors upwards until one exists, then makes
\* the missing directories downwards, one mkdir each; a mkdir that fails
\* for a missing parent ends MkdirAll with that error; then os.Chmod.
ProvisionFsStep ==
    /\ call.op = "Race"
    /\ call.p.pc # "done"
    /\ LET target == Node(call.b)
           c == call.p.cursor
           at(pc, n) == [call EXCEPT !.p.pc = pc, !.p.cursor = n]
           failed(e) == [call EXCEPT !.p.pc = "done", !.p.err = e]
       IN  \/ /\ call.p.pc = "stat"
              /\ fs' = fs
              /\ call' = IF Exists(fs, c)
                         THEN IF c = target THEN at("chmod", target)
                              ELSE at("mkdir", ChildToward(c, target))
                         ELSE at("stat", Parent(c))
           \/ /\ call.p.pc = "mkdir"
              /\ \E r \in {Mkdir(fs, c, "0777")} :
                   /\ fs' = r.fs
                   /\ call' = IF r.err = "ENOENT" THEN failed(r.err)
                              ELSE IF c = target
                              THEN [at("chmod", target) EXCEPT !.created = TRUE]
                              ELSE at("mkdir", ChildToward(c, target))
           \/ /\ call.p.pc = "chmod"
              /\ \E r \in {Chmod(fs, call.b, "0777")} :
                   /\ fs' = r.fs
                   /\ call' = IF r.err # Nil THEN failed(r.err)
                              ELSE [call EXCEPT !.p.pc = "done"]
    /\ UNCHANGED <<pPath, client, now, pvs, claimed>>

\* the next filesystem call of Delete, lines 186-235: os.Stat of the
\* directory; then os.RemoveAll, or os.Stat and os.MkdirAll of the archive
\* directory and os.Rename; then the os.Remove calls of pruneEmptyParents,
\* one ancestor each, from d.cursor upwards
DeleteFsStep ==
    /\ call.op = "Race"
    /\ call.d.pc # "done"
    /\ LET archiveDir == Join(mountPath, archiveSubPath)
           archivePath == Join(mountPath, buildArchivePath(call.a, now).path)
           at(pc) == [call EXCEPT !.d.pc = pc]
           ended(e) == [call EXCEPT !.d.pc = "done", !.d.err = e]
       IN  \/ /\ call.d.pc = "stat"
              /\ fs' = fs
              /\ call' = IF IsNotExist(Stat(fs, call.a)) THEN ended(Nil)
                         ELSE IF call.policy = "delete" THEN at("removeAll")
                         ELSE at("statArchive")
           \/ /\ call.d.pc = "removeAll"
              /\ \E r \in {RemoveAll(fs, call.a)} :
                   /\ fs' = r.fs
                   /\ call' = IF r.err # Nil THEN ended(r.err) ELSE at("prune")
           \/ /\ call.d.pc = "statArchive"
              /\ fs' = fs
              /\ call' = IF IsNotExist(Stat(fs, archiveDir)) THEN at("mkdirArchive")
                         ELSE at("rename")
           \/ /\ call.d.pc = "mkdirArchive"
              /\ fs' = MkdirAll(fs, archiveDir, "0755").fs
              /\ call' = at("rename")
           \/ /\ call.d.pc = "rename"
              /\ \E r \in {Rename(fs, call.a, archivePath)} :
                   /\ fs' = r.fs
                   /\ call' = IF r.err # Nil THEN ended(r.err) ELSE at("prune")
           \/ /\ call.d.pc = "prune"
              /\ \E r \in {Remove(fs, call.d.cursor)} :
                   IF Clean(call.d.cursor) = Clean(mountPath)
                   THEN fs' = fs /\ call' = ended(Nil)
                   ELSE IF r.err # Nil
                   THEN fs' = fs /\ call' = ended(Nil)
                   ELSE /\ fs' = r.fs
                        /\ call' = [call EXCEPT !.d.cursor = Dir(call.d.cursor),
                                                !.d.removed = Append(@, Node(call.d.cursor))]
    /\ UNCHANGED <<pPath, client, now, pvs, claimed>>

NextRace == ProvisionFsStep \/ DeleteFsStep

SpecRace == InitRace /\ [][NextRace]_vars

\* C19: for every interleaving of the filesystem calls of a Provision of b
\* with those of a Delete of a, where a and b share an ancestor below the
\* mount root and neither is above the other: once b is created, b and its
\* ancestors stay; and if Provision returns success, b exists when both
\* calls have returned
C19_ProvisionedSurvives ==
    call.op = "Race"
    => /\ call.created => Prefixes(Node(call.b)) \subseteq Dirs(fs)
       /\ (call.p.pc = "done" /\ call.p.err = Nil /\ call.d.pc = "done")
            => Node(call.b) \in Dirs(fs)

\* both calls have returned nil, Delete pruned the shared ancestor, and b
\* exists
C19_Witness ==
    /\ call.op = "Race"
    /\ call.p.pc = "done"
    /\ call.p.err = Nil
    /\ call.d.pc = "done"
    /\ call.d.err = Nil
    /\ Len(call.d.removed) > 1
    /\ Node(call.b) \in Dirs(fs)
    /\ Node(call.a) \notin Dirs(fs)

\* the interleaving in which Provision fails: the shared ancestor is pruned
\* between MkdirAll's stat of it and the mkdir below it
C19_ProvisionLosesRace ==
    /\ call.op = "Race"
    /\ call.p.pc = "done"
    /\ call.p.err = "ENOENT"
    /\ call.d.pc = "done"
    /\ Node(call.b) \notin Dirs(fs)

====
